---------------------------- MODULE Spec2Model ----------------------------
(***************************************************************************)
(* Host-side codec of the neural unit: InstinctModel (instinct.py),        *)
(* MemoryStore (memory.py) and PersonalityEngine (personality.py).         *)
(*                                                                         *)
(* Representation of Python values:                                        *)
(*   str    a sequence of code points (ASCII iff every one is < 128)       *)
(*   bytes  a sequence of integers 0..255                                  *)
(*   float  a rational <<n, d>> with d > 0, standing for n/d               *)
(*   dict   a returned dict is a sequence of <<key, value>> pairs with     *)
(*          distinct keys, in insertion order; self._cache, which no code  *)
(*          iterates, is a function from its keys to their values          *)
(* Arithmetic on floats is done exactly on the rationals.                  *)
(***************************************************************************)
EXTENDS Integers, Sequences, FiniteSets, TLC

VARIABLES obj, cache, drives, traits, episodic, sent, last, calls

vars == <<obj, cache, drives, traits, episodic, sent, last, calls>>

None == <<>>

(***************************************************************************)
(* Strings used by the code and by the calls of the model.                 *)
(***************************************************************************)
curiosity     == <<99, 117, 114, 105, 111, 115, 105, 116, 121>>
social        == <<115, 111, 99, 105, 97, 108>>
rest          == <<114, 101, 115, 116>>
hunger        == <<104, 117, 110, 103, 101, 114>>
play          == <<112, 108, 97, 121>>
self_preserve == <<115, 101, 108, 102, 95, 112, 114, 101, 115, 101, 114, 118, 101>>

\* "curiosity_drive_x": 17 characters, one more than the name field holds
curiosity_drive_x == <<99, 117, 114, 105, 111, 115, 105, 116, 121, 95, 100, 114, 105, 118, 101, 95, 120>>
\* "c" followed by U+00E9: not ASCII
c_eacute == <<99, 233>>

\* instinct.py: DEFAULT_DRIVES, in the order the dict literal lists them
DEFAULT_DRIVES ==
    << <<curiosity,     <<7, 10>>>>,
       <<social,        <<85, 100>>>>,
       <<rest,          <<4, 10>>>>,
       <<hunger,        <<5, 10>>>>,
       <<play,          <<75, 100>>>>,
       <<self_preserve, <<9, 10>>>> >>

CMD_SET_DRIVE   == 32
CMD_GET_DRIVE   == 33
CMD_LIST_DRIVES == 34

\* memory.py
touch_head  == <<116, 111, 117, 99, 104, 95, 104, 101, 97, 100>>
\* "bark": no event of EVENT_NAMES
bark        == <<98, 97, 114, 107>>
alice       == <<97, 108, 105, 99, 101>>
unknown_uid == <<117, 110, 107, 110, 111, 119, 110, 45, 117, 105, 100>>

EVENT_NAMES ==
    { <<112, 101, 116, 95, 100, 101, 116, 101, 99, 116, 101, 100>>,           \* pet_detected
      <<102, 97, 99, 101, 95, 115, 101, 101, 110>>,                           \* face_seen
      <<111, 98, 106, 101, 99, 116, 95, 115, 101, 101, 110>>,                 \* object_seen
      touch_head,
      <<116, 111, 117, 99, 104, 95, 98, 97, 99, 107>>,                        \* touch_back
      <<116, 111, 117, 99, 104, 95, 99, 104, 105, 110>>,                      \* touch_chin
      <<116, 111, 117, 99, 104, 95, 112, 97, 119>>,                           \* touch_paw
      <<116, 97, 105, 108, 95, 103, 114, 97, 98>>,                            \* tail_grab
      <<108, 111, 117, 100, 95, 110, 111, 105, 115, 101>>,                    \* loud_noise
      <<100, 97, 114, 107, 110, 101, 115, 115>>,                              \* darkness
      <<112, 105, 99, 107, 101, 100, 95, 117, 112>>,                          \* picked_up
      <<112, 117, 116, 95, 100, 111, 119, 110>>,                              \* put_down
      <<102, 101, 100>>,                                                      \* fed
      <<112, 108, 97, 121, 95, 105, 110, 105, 116, 105, 97, 116, 101, 100>>,  \* play_initiated
      <<105, 103, 110, 111, 114, 101, 100>> }                                 \* ignored

CMD_ENCODE   == 48
CMD_RECALL   == 49
CMD_TRUST    == 50
CMD_MEM_WIPE == 63

\* event.encode("ascii").ljust(24, b"\x00")[:24]
EventWidth == 24
\* hashlib.sha256(...).digest()[:8]
HashWidth == 8
\* record_size = 38
record_size == 38

\* personality.py
bold == <<98, 111, 108, 100>>

CMD_TRAIT_GET      == 64
CMD_TRAIT_SET      == 65
CMD_TRAIT_SNAPSHOT == 66
CMD_TRAIT_RESET    == 79

\* b"\xDE\xAD"
Sentinel == <<222, 173>>

\* the scale of int(x * 65535) and of x / 65535.0
Scale == 65535
\* ljust(16, b"\x00")[:16]
NameWidth == 16
\* range(0, len(raw), 18)
RecordSize == 18

(***************************************************************************)
(* dict                                                                    *)
(***************************************************************************)
Keys(d) == {d[i][1] : i \in 1..Len(d)}

\* d[k] = v: an existing key keeps its position, a new key goes last
Put(d, k, v) ==
    IF k \in Keys(d)
    THEN [i \in 1..Len(d) |-> IF d[i][1] = k THEN <<k, v>> ELSE d[i]]
    ELSE Append(d, <<k, v>>)

\* the same on a mapping held as a function
Store(f, k, v) == [x \in DOMAIN f \cup {k} |-> IF x = k THEN v ELSE f[x]]

\* f.update(e), e a returned dict
RECURSIVE Update(_, _)
Update(f, e) ==
    IF e = <<>> THEN f ELSE Update(Store(f, e[1][1], e[1][2]), Tail(e))

(***************************************************************************)
(* bytes and str                                                           *)
(***************************************************************************)
IsAscii(s) == \A i \in 1..Len(s) : s[i] < 128

\* b.ljust(w, b"\x00")
Ljust(b, w) == IF Len(b) >= w THEN b ELSE b \o [i \in 1..(w - Len(b)) |-> 0]

\* b[:w]
Prefix(b, w) == IF Len(b) <= w THEN b ELSE SubSeq(b, 1, w)

\* b[i:j], Python's half-open slice with 0-based i
Slice(b, i, j) ==
    IF i >= Len(b) THEN <<>>
    ELSE SubSeq(b, i + 1, IF j <= Len(b) THEN j ELSE Len(b))

\* name.encode("ascii").ljust(w, b"\x00")[:w]
NameField(name, w) == Prefix(Ljust(name, w), w)

\* b.rstrip(b"\x00")
RECURSIVE Rstrip(_)
Rstrip(b) ==
    IF b = <<>> \/ b[Len(b)] # 0 THEN b ELSE Rstrip(SubSeq(b, 1, Len(b) - 1))

\* b.decode("ascii", errors="replace")
DecodeReplace(b) == [i \in 1..Len(b) |-> IF b[i] < 128 THEN b[i] ELSE 65533]

(***************************************************************************)
(* Quantization                                                            *)
(***************************************************************************)
\* not 0.0 <= value <= 1.0 is the rejection test
InUnit(v) == 0 <= v[1] /\ v[1] <= v[2]

\* floor(a * 65535 / b) for a >= 0, b > 0, computed through 65535 = 255 * 257
\* so that no intermediate product leaves the range of 32-bit integers
FloorScale(a, b) ==
    LET q1 == (a * 255) \div b
        r1 == (a * 255) % b
    IN  q1 * 257 + (r1 * 257) \div b

\* the remainder of a * 65535 divided by b, for a >= 0, b > 0
RemScale(a, b) == (((a * 255) % b) * 257) % b

\* round(v * 65535) for v >= 0: to the nearest integer, a tie to the even one
RoundScale(v) ==
    LET q == FloorScale(v[1], v[2])
        r == RemScale(v[1], v[2])
    IN  IF 2 * r > v[2] \/ (2 * r = v[2] /\ q % 2 = 1) THEN q + 1 ELSE q

\* Quantize rounding to nearest instead of truncating
QuantizeRound(v) == IF v[1] >= 0 THEN RoundScale(v) ELSE 0 - RoundScale(<<0 - v[1], v[2]>>)

\* int(v * 65535): int() truncates toward zero
Quantize(v) ==
    IF v[1] >= 0 THEN FloorScale(v[1], v[2]) ELSE 0 - FloorScale(0 - v[1], v[2])

\* n.to_bytes(len, "big") raises OverflowError unless 0 <= n < 256^len
\* (every integer of the model is below 256^4)
Fits(n, len) == n >= 0 /\ (len >= 4 \/ n < 256 ^ len)

RECURSIVE ToBytes(_, _)
ToBytes(n, len) ==
    IF len = 0 THEN <<>> ELSE Append(ToBytes(n \div 256, len - 1), n % 256)

\* int.from_bytes(b, "big"); the empty bytes give 0
RECURSIVE FromBytes(_)
FromBytes(b) ==
    IF b = <<>> THEN 0
    ELSE FromBytes(SubSeq(b, 1, Len(b) - 1)) * 256 + b[Len(b)]

\* DecodeUnit reading the two bytes in little-endian order
DecodeUnitLittle(raw) ==
    <<FromBytes([i \in 1..Len(Prefix(raw, 2)) |-> Prefix(raw, 2)[Len(Prefix(raw, 2)) + 1 - i]]), Scale>>

\* int.from_bytes(raw[:2], "big") / 65535.0
DecodeUnit(raw) == <<FromBytes(Prefix(raw, 2)), Scale>>

\* round(v, 4) as a number of ten-thousandths: the nearest integer to
\* v * 10000 (no v = u / 65535 or (2u - 65535) / 65535 lies halfway)
Round4(v) == <<(2 * v[1] * 10000 + v[2]) \div (2 * v[2]), 10000>>

\* hashlib.sha256(uid.encode()).digest()[:8], tabulated for the uids of the model
hash_uid(uid) ==
    CASE uid = alice       -> <<43, 216, 6, 201, 127, 14, 0, 175>>
      [] uid = unknown_uid -> <<110, 216, 153, 175, 71, 170, 98, 222>>

(***************************************************************************)
(* The neural unit behind send_cmd: it keeps the 2-byte value of each      *)
(* SET payload under the payload's 16-byte name field and gives it back;   *)
(* it keeps the most recent ENCODE payloads, newest first.                 *)
(***************************************************************************)
\* the number of episodic records the unit of the model retains
MaxEvents == 2

Command(cmd, payload) == [cmd |-> cmd, payload |-> payload]

UnitStore(store, payload) ==
    Store(store, Slice(payload, 0, NameWidth), Slice(payload, NameWidth, NameWidth + 2))

UnitFetch(store, field) ==
    IF field \in DOMAIN store THEN store[field] ELSE <<>>

RECURSIVE UnitListOf(_, _)
UnitListOf(store, fields) ==
    IF fields = {} THEN <<>>
    ELSE LET f == CHOOSE f \in fields : TRUE
         IN  f \o store[f] \o UnitListOf(store, fields \ {f})

UnitList(store) == UnitListOf(store, DOMAIN store)

UnitEncode(buffer, payload) == Prefix(<<payload>> \o buffer, MaxEvents)

RECURSIVE Concat(_)
Concat(ss) == IF ss = <<>> THEN <<>> ELSE ss[1] \o Concat(Tail(ss))

UnitRecall(buffer, limit) == Concat(Prefix(buffer, limit))

(***************************************************************************)
(* A call works on st = [cache, drives, traits, episodic, sent, outcome,   *)
(* result]: the host mirror, the unit's stores, the send_cmd calls made,   *)
(* and the call's outcome ("ok" or the exception it raises) and return     *)
(* value.  It gives the record after the call.                             *)
(***************************************************************************)
Raise(st, exc) == [st EXCEPT !.outcome = exc]

Send(st, cmd, payload) == [st EXCEPT !.sent = Append(@, Command(cmd, payload))]

(***************************************************************************)
(* InstinctModel                                                           *)
(***************************************************************************)
\* set_drive without its range test
set_drive_unchecked(st, name, weight, up) ==
    IF ~IsAscii(name) THEN Raise(st, "UnicodeEncodeError")
    ELSE IF ~Fits(Quantize(weight), 2) THEN Raise(st, "OverflowError")
    ELSE LET name_bytes == NameField(name, NameWidth)
             w_bytes    == ToBytes(Quantize(weight), 2)
             called     == Send(st, CMD_SET_DRIVE, name_bytes \o w_bytes)
         IN  IF ~up THEN Raise(called, "TransportError")
             ELSE [called EXCEPT !.drives = UnitStore(@, name_bytes \o w_bytes),
                                 !.cache  = Store(@, name, weight)]

set_drive(st, name, weight, up) ==
    IF ~InUnit(weight) THEN Raise(st, "ValueError")
    ELSE IF ~IsAscii(name) THEN Raise(st, "UnicodeEncodeError")
    ELSE IF ~Fits(Quantize(weight), 2) THEN Raise(st, "OverflowError")
    ELSE LET name_bytes == NameField(name, NameWidth)
             w_bytes    == ToBytes(Quantize(weight), 2)
             called     == Send(st, CMD_SET_DRIVE, name_bytes \o w_bytes)
         IN  IF ~up THEN Raise(called, "TransportError")
             ELSE [called EXCEPT !.drives = UnitStore(@, name_bytes \o w_bytes),
                                 !.cache  = Store(@, name, weight)]

\* get_drive writing the mirror before the transport has answered
get_drive_early(st, name, up, raw) ==
    IF ~IsAscii(name) THEN Raise(st, "UnicodeEncodeError")
    ELSE LET called == Send([st EXCEPT !.cache = Store(@, name, DecodeUnit(raw))],
                            CMD_GET_DRIVE, NameField(name, NameWidth))
         IN  IF ~up THEN Raise(called, "TransportError")
             ELSE [called EXCEPT !.result = DecodeUnit(raw)]

get_drive(st, name, up, raw) ==
    IF ~IsAscii(name) THEN Raise(st, "UnicodeEncodeError")
    ELSE LET called == Send(st, CMD_GET_DRIVE, NameField(name, NameWidth))
         IN  IF ~up THEN Raise(called, "TransportError")
             ELSE [called EXCEPT !.cache  = Store(@, name, DecodeUnit(raw)),
                                 !.result = DecodeUnit(raw)]

\* the loop of list_drives from offset i on: the dict built, or the
\* exception of the strict name decode
RECURSIVE list_drives_loop(_, _, _)
list_drives_loop(raw, i, result) ==
    IF i >= Len(raw) THEN [outcome |-> "ok", result |-> result]
    ELSE LET chunk == Slice(raw, i, i + RecordSize)
             field == Rstrip(Slice(chunk, 0, NameWidth))
         IN  IF Len(chunk) < RecordSize THEN [outcome |-> "ok", result |-> result]
             ELSE IF ~IsAscii(field)
             THEN [outcome |-> "UnicodeDecodeError", result |-> result]
             ELSE list_drives_loop(raw, i + RecordSize,
                      Put(result, field, DecodeUnit(Slice(chunk, NameWidth, RecordSize))))

\* list_drives whose loop stops before the last full record
list_drives_short(st, up, raw) ==
    LET called == Send(st, CMD_LIST_DRIVES, <<>>)
        dec    == list_drives_loop(Prefix(raw, Len(raw) - RecordSize), 0, <<>>)
    IN  IF ~up THEN Raise(called, "TransportError")
        ELSE IF dec.outcome # "ok" THEN Raise(called, dec.outcome)
        ELSE [called EXCEPT !.cache = Update(@, dec.result), !.result = dec.result]

list_drives(st, up, raw) ==
    LET called == Send(st, CMD_LIST_DRIVES, <<>>)
        dec    == list_drives_loop(raw, 0, <<>>)
    IN  IF ~up THEN Raise(called, "TransportError")
        ELSE IF dec.outcome # "ok" THEN Raise(called, dec.outcome)
        ELSE [called EXCEPT !.cache = Update(@, dec.result), !.result = dec.result]

\* for name, weight in DEFAULT_DRIVES.items(): self.set_drive(name, weight)
\* from the i-th entry on; the transport is down at the k-th command only
RECURSIVE load_defaults_from(_, _, _)
load_defaults_from(st, i, k) ==
    IF i > Len(DEFAULT_DRIVES) \/ st.outcome # "ok" THEN st
    ELSE load_defaults_from(
             set_drive(st, DEFAULT_DRIVES[i][1], DEFAULT_DRIVES[i][2], i # k), i + 1, k)

\* load_defaults going on to the next drive after a failed set_drive
RECURSIVE load_defaults_on(_, _, _)
load_defaults_on(st, i, k) ==
    IF i > Len(DEFAULT_DRIVES) THEN st
    ELSE LET r == set_drive([st EXCEPT !.outcome = "ok"],
                            DEFAULT_DRIVES[i][1], DEFAULT_DRIVES[i][2], i # k)
         IN  load_defaults_on(IF st.outcome # "ok" THEN Raise(r, st.outcome) ELSE r, i + 1, k)

load_defaults_all(st, k) == load_defaults_on(st, 1, k)

load_defaults(st, k) == load_defaults_from(st, 1, k)

(***************************************************************************)
(* MemoryStore.  timestamp is <<>> when the argument is omitted (None)     *)
(* and <<t>> when it is t; now is int(time.time()).                        *)
(***************************************************************************)
\* int(timestamp or time.time())
encode_ts(timestamp, now) ==
    IF timestamp = <<>> \/ timestamp[1] = 0 THEN now ELSE timestamp[1]

\* int((valence + 1.0) / 2.0 * 65535)
encode_val(valence) == Quantize(<<valence[1] + valence[2], 2 * valence[2]>>)

encode(st, event, uid, valence, timestamp, now, up) ==
    IF event \notin EVENT_NAMES THEN Raise(st, "ValueError")
    ELSE IF ~Fits(encode_val(valence), 2) THEN Raise(st, "OverflowError")
    ELSE IF ~Fits(encode_ts(timestamp, now), 4) THEN Raise(st, "OverflowError")
    ELSE LET ev_bytes == NameField(event, EventWidth)
             uid_hash == hash_uid(uid)
             val_i16  == ToBytes(encode_val(valence), 2)
             ts_bytes == ToBytes(encode_ts(timestamp, now), 4)
             payload  == ev_bytes \o uid_hash \o val_i16 \o ts_bytes
             called   == Send(st, CMD_ENCODE, payload)
         IN  IF ~up THEN Raise(called, "TransportError")
             ELSE [called EXCEPT !.episodic = UnitEncode(@, payload)]

\* (u / 65535.0) * 2.0 - 1.0
DecodeBipolar(b) == <<2 * FromBytes(b) - Scale, Scale>>

RECURSIVE recall_loop(_, _, _)
recall_loop(raw, i, events) ==
    IF i >= Len(raw) THEN events
    ELSE LET chunk == Slice(raw, i, i + record_size)
         IN  IF Len(chunk) < record_size THEN events
             ELSE recall_loop(raw, i + record_size,
                      Append(events,
                          [event   |-> DecodeReplace(Rstrip(Slice(chunk, 0, EventWidth))),
                           valence |-> Round4(DecodeBipolar(Slice(chunk, 32, 34))),
                           ts      |-> FromBytes(Slice(chunk, 34, 38))]))

recall(st, limit, up, raw) ==
    IF ~Fits(limit, 2) THEN Raise(st, "OverflowError")
    ELSE LET called == Send(st, CMD_RECALL, ToBytes(limit, 2))
         IN  IF ~up THEN Raise(called, "TransportError")
             ELSE [called EXCEPT !.result = recall_loop(raw, 0, <<>>)]

\* get_trust without its length test
get_trust_unchecked(st, uid, up, raw) ==
    LET called == Send(st, CMD_TRUST, hash_uid(uid))
    IN  IF ~up THEN Raise(called, "TransportError")
        ELSE [called EXCEPT !.result = DecodeUnit(raw)]

get_trust(st, uid, up, raw) ==
    LET called == Send(st, CMD_TRUST, hash_uid(uid))
    IN  IF ~up THEN Raise(called, "TransportError")
        ELSE IF Len(raw) < 2 THEN [called EXCEPT !.result = <<0, 1>>]
        ELSE [called EXCEPT !.result = DecodeUnit(raw)]

wipe(st, up) ==
    LET called == Send(st, CMD_MEM_WIPE, Sentinel)
    IN  IF ~up THEN Raise(called, "TransportError")
        ELSE [called EXCEPT !.episodic = <<>>]

(***************************************************************************)
(* PersonalityEngine                                                       *)
(***************************************************************************)
get(st, trait, up, raw) ==
    IF ~IsAscii(trait) THEN Raise(st, "UnicodeEncodeError")
    ELSE LET called == Send(st, CMD_TRAIT_GET, NameField(trait, NameWidth))
         IN  IF ~up THEN Raise(called, "TransportError")
             ELSE [called EXCEPT !.result = DecodeUnit(raw)]

set(st, trait, value, up) ==
    IF ~InUnit(value) THEN Raise(st, "ValueError")
    ELSE IF ~IsAscii(trait) THEN Raise(st, "UnicodeEncodeError")
    ELSE IF ~Fits(Quantize(value), 2) THEN Raise(st, "OverflowError")
    ELSE LET t      == NameField(trait, NameWidth)
             v      == ToBytes(Quantize(value), 2)
             called == Send(st, CMD_TRAIT_SET, t \o v)
         IN  IF ~up THEN Raise(called, "TransportError")
             ELSE [called EXCEPT !.traits = UnitStore(@, t \o v)]

RECURSIVE snapshot_loop(_, _, _)
snapshot_loop(raw, i, result) ==
    IF i >= Len(raw) THEN [outcome |-> "ok", result |-> result]
    ELSE LET chunk == Slice(raw, i, i + RecordSize)
             name  == Rstrip(Slice(chunk, 0, NameWidth))
         IN  IF Len(chunk) < RecordSize THEN [outcome |-> "ok", result |-> result]
             ELSE IF ~IsAscii(name)
             THEN [outcome |-> "UnicodeDecodeError", result |-> result]
             ELSE snapshot_loop(raw, i + RecordSize,
                      Put(result, name, Round4(DecodeUnit(Slice(chunk, NameWidth, RecordSize)))))

snapshot(st, up, raw) ==
    LET called == Send(st, CMD_TRAIT_SNAPSHOT, <<>>)
        dec    == snapshot_loop(raw, 0, <<>>)
    IN  IF ~up THEN Raise(called, "TransportError")
        ELSE IF dec.outcome # "ok" THEN Raise(called, dec.outcome)
        ELSE [called EXCEPT !.result = dec.result]

reset(st, up) ==
    LET called == Send(st, CMD_TRAIT_RESET, Sentinel)
    IN  IF ~up THEN Raise(called, "TransportError")
        ELSE [called EXCEPT !.traits = <<>>]

(***************************************************************************)
(* The calls of the model                                                  *)
(***************************************************************************)
\* the number of calls made on the object in one run
MaxCalls == 3

DriveNames == {curiosity, curiosity_drive_x, c_eacute}

TraitNames == {bold, c_eacute}

\* -0.1, 1/3, 0.85, 1.0, 1.00001
Weights == {<<-1, 10>>, <<1, 3>>, <<85, 100>>, <<1, 1>>, <<100001, 100000>>}

\* -1.00001, 0.7, 1.00001, 1.5
Valences == {<<-100001, 100000>>, <<7, 10>>, <<100001, 100000>>, <<3, 2>>}

\* omitted, 0, 1000
Timestamps == {<<>>, <<0>>, <<1000>>}

\* int(time.time()) at the call
Clock == {1700000000}

Limits == {1, 16, 65536}

\* what send_cmd does: it raises TransportError, or returns one of replies
Transport(replies) ==
    {[up |-> FALSE, raw |-> <<>>]} \cup {[up |-> TRUE, raw |-> r] : r \in replies}

\* replies of the unit to GET_DRIVE and TRAIT_GET besides the stored value,
\* and its replies to TRUST
ShortReplies == {<<>>, <<128>>}

TrustReplies == ShortReplies \cup {<<217, 152>>, <<217, 152, 7>>}

\* the longest run of records and the pieces a LIST_DRIVES or
\* TRAIT_SNAPSHOT reply is made of
MaxRecs == 2

RecPool ==
    { NameField(curiosity, NameWidth) \o <<217, 152>>,
      NameField(curiosity, NameWidth) \o <<0, 1>> }

\* a reply whose second record carries a name field that is not ASCII
NonAscii ==
    NameField(bold, NameWidth) \o <<0, 2>> \o NameField(c_eacute, NameWidth) \o <<0, 0>>

TailLens == {0, 17}

Padded(bodies, tails) == {body \o [i \in 1..t |-> 255] : body \in bodies, t \in tails}

ListReplies(store) ==
    Padded({UnitList(store), NonAscii} \cup
           UNION {{Concat(rs) : rs \in [1..n -> RecPool]} : n \in 0..MaxRecs}, TailLens)

\* a record of the buffer whose event name holds a byte that is not ASCII
Garbled == <<200>> \o [i \in 1..(record_size - 1) |-> 0]

RecallReplies(buffer, limit) ==
    Padded({UnitRecall(buffer, limit), Garbled}, {0, record_size - 1})

Start ==
    [cache |-> cache, drives |-> drives, traits |-> traits, episodic |-> episodic,
     sent |-> <<>>, outcome |-> "ok", result |-> None]

Finish(st, op, args) ==
    /\ calls < MaxCalls
    /\ calls' = calls + 1
    /\ cache' = st.cache
    /\ drives' = st.drives
    /\ traits' = st.traits
    /\ episodic' = st.episodic
    /\ sent' = st.sent
    /\ last' = [op |-> op, args |-> args, outcome |-> st.outcome, result |-> st.result]
    /\ UNCHANGED obj

SetDrive(name, weight, up) ==
    /\ obj = "InstinctModel"
    /\ Finish(set_drive(Start, name, weight, up), "set_drive",
              [name |-> name, weight |-> weight])

GetDrive(name, up, raw) ==
    /\ obj = "InstinctModel"
    /\ Finish(get_drive(Start, name, up, raw), "get_drive", [name |-> name, raw |-> raw])

ListDrives(up, raw) ==
    /\ obj = "InstinctModel"
    /\ Finish(list_drives(Start, up, raw), "list_drives", [raw |-> raw])

LoadDefaults(k) ==
    /\ obj = "InstinctModel"
    /\ Finish(load_defaults(Start, k), "load_defaults", [k |-> k])

Encode(event, uid, valence, timestamp, now, up) ==
    /\ obj = "MemoryStore"
    /\ Finish(encode(Start, event, uid, valence, timestamp, now, up), "encode",
              [event |-> event, uid |-> uid, valence |-> valence,
               timestamp |-> timestamp, now |-> now])

Recall(limit, up, raw) ==
    /\ obj = "MemoryStore"
    /\ Finish(recall(Start, limit, up, raw), "recall", [limit |-> limit, raw |-> raw])

GetTrust(uid, up, raw) ==
    /\ obj = "MemoryStore"
    /\ Finish(get_trust(Start, uid, up, raw), "get_trust", [uid |-> uid, raw |-> raw])

Wipe(up) ==
    /\ obj = "MemoryStore"
    /\ Finish(wipe(Start, up), "wipe", None)

TraitGet(trait, up, raw) ==
    /\ obj = "PersonalityEngine"
    /\ Finish(get(Start, trait, up, raw), "get", [name |-> trait, raw |-> raw])

TraitSet(trait, value, up) ==
    /\ obj = "PersonalityEngine"
    /\ Finish(set(Start, trait, value, up), "set", [name |-> trait, weight |-> value])

Snapshot(up, raw) ==
    /\ obj = "PersonalityEngine"
    /\ Finish(snapshot(Start, up, raw), "snapshot", [raw |-> raw])

Reset(up) ==
    /\ obj = "PersonalityEngine"
    /\ Finish(reset(Start, up), "reset", None)

\* the object the run constructs; __init__ leaves the mirror empty
Init ==
    /\ obj \in {"InstinctModel", "MemoryStore", "PersonalityEngine"}
    /\ cache = <<>>
    /\ drives = <<>>
    /\ traits = <<>>
    /\ episodic = <<>>
    /\ sent = <<>>
    /\ calls = 0
    /\ last = [op |-> "__init__", args |-> None, outcome |-> "ok", result |-> None]

Next ==
    \/ \E name \in DriveNames, weight \in Weights, up \in BOOLEAN :
           SetDrive(name, weight, up)
    \/ \E name \in DriveNames :
           \E t \in Transport({UnitFetch(drives, NameField(name, NameWidth))} \cup ShortReplies) :
               GetDrive(name, t.up, t.raw)
    \/ \E t \in Transport(ListReplies(drives)) : ListDrives(t.up, t.raw)
    \/ \E k \in 1..(Len(DEFAULT_DRIVES) + 1) : LoadDefaults(k)
    \/ \E event \in {touch_head, bark}, valence \in Valences, timestamp \in Timestamps,
          now \in Clock, up \in BOOLEAN :
           Encode(event, alice, valence, timestamp, now, up)
    \/ \E limit \in Limits :
           \E t \in Transport(RecallReplies(episodic, limit)) : Recall(limit, t.up, t.raw)
    \/ \E uid \in {alice, unknown_uid} :
           \E t \in Transport(TrustReplies) : GetTrust(uid, t.up, t.raw)
    \/ \E up \in BOOLEAN : Wipe(up)
    \/ \E trait \in TraitNames :
           \E t \in Transport({UnitFetch(traits, NameField(trait, NameWidth))} \cup ShortReplies) :
               TraitGet(trait, t.up, t.raw)
    \/ \E trait \in TraitNames, value \in Weights, up \in BOOLEAN :
           TraitSet(trait, value, up)
    \/ \E t \in Transport(ListReplies(traits)) : Snapshot(t.up, t.raw)
    \/ \E up \in BOOLEAN : Reset(up)

Spec == Init /\ [][Next]_vars

(***************************************************************************)
(* Properties                                                              *)
(***************************************************************************)
\* -1.0 <= v <= 1.0
InBipolar(v) == 0 - v[2] <= v[1] /\ v[1] <= v[2]

\* the 2-byte value field of the first command sent, at byte offset off
WireValue(off) == FromBytes(Slice(sent[1].payload, off, off + 2))

\* q = floor(v * 65535)
IsFloorOfScaled(q, v) == q * v[2] <= v[1] * Scale /\ v[1] * Scale < (q + 1) * v[2]

Answered == sent # <<>> /\ last.outcome # "TransportError"

\* C1: a set_drive or PersonalityEngine.set call with a weight outside
\* [0.0, 1.0] raises, calls send_cmd zero times, and leaves the host mirror
\* (and so the unit's stores) as they were.
C1_OutOfRangeRejected ==
    [][ (last'.op \in {"set_drive", "set"} /\ ~InUnit(last'.args.weight))
        => /\ last'.outcome = "ValueError"
           /\ sent' = <<>>
           /\ cache' = cache
           /\ drives' = drives
           /\ traits' = traits ]_vars

C1_Witness ==
    /\ last.op = "set_drive"
    /\ last.args.weight = <<100001, 100000>>
    /\ last.outcome = "ValueError"
    /\ sent = <<>>
    /\ curiosity \in DOMAIN cache

\* C2: when set_drive(name, w) has succeeded and the next call is
\* get_drive(name) answered with the 2 bytes the unit stored under the
\* name's 16-byte field, get_drive returns v with |v - w| <= 1/65535.
C2_SetGetRoundTrip ==
    [][ ( /\ last.op = "set_drive"
          /\ last.outcome = "ok"
          /\ last'.op = "get_drive"
          /\ last'.outcome = "ok"
          /\ last'.args.name = last.args.name
          /\ last'.args.raw = UnitFetch(drives, NameField(last.args.name, NameWidth)) )
        => LET w == last.args.weight
               v == last'.result
               diff == v[1] * w[2] - w[1] * Scale
           IN  /\ v[2] = Scale
               /\ diff <= w[2]
               /\ 0 - diff <= w[2] ]_vars

C2_Witness ==
    /\ last.op = "get_drive"
    /\ last.outcome = "ok"
    /\ last.args.name = curiosity_drive_x
    /\ last.args.raw = <<85, 85>>
    /\ last.result = <<21845, 65535>>
    /\ curiosity_drive_x \in DOMAIN cache

\* C3 as stated: the value field put on the wire by set_drive and
\* PersonalityEngine.set is round(v * 65535), and the valence field put on
\* the wire by encode, for a valence in [-1.0, 1.0], is
\* round(((v + 1.0) / 2.0) * 65535).
C3_WireValueRounded ==
    /\ (last.op \in {"set_drive", "set"} /\ sent # <<>>)
       => WireValue(NameWidth) = RoundScale(last.args.weight)
    /\ (last.op = "encode" /\ sent # <<>> /\ InBipolar(last.args.valence))
       => WireValue(EventWidth + HashWidth)
            = RoundScale(<<last.args.valence[1] + last.args.valence[2], 2 * last.args.valence[2]>>)

\* C3 amended: the value field put on the wire by set_drive and
\* PersonalityEngine.set is floor(v * 65535) (the fraction is dropped), and
\* the valence field put on the wire by encode, for a valence in
\* [-1.0, 1.0], is floor(((v + 1.0) / 2.0) * 65535).
C3_WireValueTruncated ==
    /\ (last.op \in {"set_drive", "set"} /\ sent # <<>>)
       => IsFloorOfScaled(WireValue(NameWidth), last.args.weight)
    /\ (last.op = "encode" /\ sent # <<>> /\ InBipolar(last.args.valence))
       => IsFloorOfScaled(WireValue(EventWidth + HashWidth),
              <<last.args.valence[1] + last.args.valence[2], 2 * last.args.valence[2]>>)

C3_Witness ==
    /\ last.op = "encode"
    /\ last.args.valence = <<7, 10>>
    /\ sent # <<>>
    /\ WireValue(EventWidth + HashWidth) = 55704

\* C4: get_trust sends exactly one TRUST command whose payload is the 8-byte
\* subject hash; answered with fewer than 2 bytes it returns 0.0 without
\* raising, and otherwise it returns the first two reply bytes, read as a
\* big-endian integer, divided by 65535.
C4_GetTrust ==
    last.op = "get_trust"
    => /\ Len(sent) = 1
       /\ sent[1].cmd = CMD_TRUST
       /\ Len(sent[1].payload) = HashWidth
       /\ sent[1].payload = hash_uid(last.args.uid)
       /\ last.outcome # "TransportError"
          => /\ last.outcome = "ok"
             /\ IF Len(last.args.raw) < 2
                THEN last.result[1] = 0
                ELSE /\ last.result[1] = last.args.raw[1] * 256 + last.args.raw[2]
                     /\ last.result[2] = Scale

C4_Witness ==
    /\ last.op = "get_trust"
    /\ last.args.uid = unknown_uid
    /\ Len(last.args.raw) = 1
    /\ last.outcome = "ok"
    /\ last.result[1] = 0

\* the full records of a LIST_DRIVES or TRAIT_SNAPSHOT reply
NRecs(raw) == Len(raw) \div RecordSize

Rec(raw, i) == SubSeq(raw, (i - 1) * RecordSize + 1, i * RecordSize)

RecName(raw, i) == Rstrip(SubSeq(Rec(raw, i), 1, NameWidth))

RecValue(raw, i) == Rec(raw, i)[NameWidth + 1] * 256 + Rec(raw, i)[NameWidth + 2]

FirstRec(raw, name) == CHOOSE i \in 1..NRecs(raw) :
    RecName(raw, i) = name /\ \A j \in 1..(i - 1) : RecName(raw, j) # name

LastRec(raw, name) == CHOOSE i \in 1..NRecs(raw) :
    RecName(raw, i) = name /\ \A j \in (i + 1)..NRecs(raw) : RecName(raw, j) # name

\* the value list_drives (exact) and snapshot (rounded to 4 digits) give for u
IsDecoded(op, v, u) ==
    IF op = "list_drives" THEN v = <<u, Scale>>
    ELSE /\ v[2] = 10000
         /\ 2 * (v[1] * Scale - u * 10000) <= Scale
         /\ 2 * (u * 10000 - v[1] * Scale) <= Scale

\* C5 as stated: the result of list_drives (snapshot) holds one entry per
\* full 18-byte record of the reply, in the records' order.
C5_OneEntryPerRecord ==
    (last.op \in {"list_drives", "snapshot"} /\ last.outcome = "ok")
    => /\ Len(last.result) = NRecs(last.args.raw)
       /\ \A i \in 1..Len(last.result) : last.result[i][1] = RecName(last.args.raw, i)

\* C5 amended: for a reply of any length L whose full records all carry
\* ASCII name fields, list_drives (snapshot) does not raise, reads the
\* floor(L/18) leading full records and drops the trailing L mod 18 bytes;
\* the result holds one entry per distinct name among those records, in
\* the order of the names' first appearance, each with the value of the
\* last record of that name.  A full record whose name field is not ASCII
\* makes the call raise UnicodeDecodeError.
C5_OneEntryPerName ==
    (last.op \in {"list_drives", "snapshot"} /\ Answered)
    => LET raw == last.args.raw
           res == last.result
       IN  IF \A i \in 1..NRecs(raw) : IsAscii(RecName(raw, i))
           THEN /\ last.outcome = "ok"
                /\ Keys(res) = {RecName(raw, i) : i \in 1..NRecs(raw)}
                /\ Len(res) = Cardinality(Keys(res))
                /\ \A j \in 1..Len(res) :
                       IsDecoded(last.op, res[j][2], RecValue(raw, LastRec(raw, res[j][1])))
                /\ \A j, k \in 1..Len(res) :
                       j < k => FirstRec(raw, res[j][1]) < FirstRec(raw, res[k][1])
           ELSE last.outcome = "UnicodeDecodeError"

C5_Witness ==
    /\ last.op = "list_drives"
    /\ last.outcome = "ok"
    /\ Len(last.args.raw) = 2 * RecordSize + 17
    /\ last.result = << <<curiosity, <<1, 65535>>>> >>

\* the names of DEFAULT_DRIVES in the order of the table
DefaultOrder == <<curiosity, social, rest, hunger, play, self_preserve>>

\* C6: load_defaults issues SET_DRIVE commands for the drives of
\* DEFAULT_DRIVES in the table's order: all 6 when the transport never
\* raises; when the transport raises on the k-th command the error
\* propagates, exactly k commands have been issued (none for drives
\* k+1..6), and drives 1..k-1 are set on the unit and in the mirror.
C6_LoadDefaults ==
    last.op = "load_defaults"
    => LET k == last.args.k
           n == IF k <= 6 THEN k ELSE 6
       IN  /\ Len(DEFAULT_DRIVES) = 6
           /\ last.outcome = (IF k <= 6 THEN "TransportError" ELSE "ok")
           /\ Len(sent) = n
           /\ \A i \in 1..n :
                  /\ sent[i].cmd = CMD_SET_DRIVE
                  /\ Rstrip(Slice(sent[i].payload, 0, NameWidth)) = DefaultOrder[i]
                  /\ DEFAULT_DRIVES[i][1] = DefaultOrder[i]
                  /\ IsFloorOfScaled(FromBytes(Slice(sent[i].payload, NameWidth, NameWidth + 2)),
                                     DEFAULT_DRIVES[i][2])
           /\ \A i \in 1..(IF k <= 6 THEN k - 1 ELSE 6) :
                  /\ DefaultOrder[i] \in DOMAIN cache
                  /\ cache[DefaultOrder[i]] = DEFAULT_DRIVES[i][2]
                  /\ Slice(sent[i].payload, 0, NameWidth) \in DOMAIN drives
                  /\ drives[Slice(sent[i].payload, 0, NameWidth)]
                       = Slice(sent[i].payload, NameWidth, NameWidth + 2)

C6_Witness ==
    /\ last.op = "load_defaults"
    /\ last.args.k = 3
    /\ last.outcome = "TransportError"
    /\ Len(sent) = 3
    /\ DOMAIN cache = {curiosity, social}

\* C7: when encode is given a known event, a valence in [-1.0, 1.0] and an
\* explicit timestamp t in 0..2^32-1 (t = 0 included), the payload it sends
\* carries t in its 4-byte big-endian timestamp field.
C7_TimestampSent ==
    (last.op = "encode" /\ sent # <<>> /\ InBipolar(last.args.valence)
       /\ last.args.timestamp # <<>> /\ last.args.timestamp[1] >= 0)
    => FromBytes(Slice(sent[1].payload, 34, 38)) = last.args.timestamp[1]

\* C8: when the transport answers GET_DRIVE or TRAIT_GET with fewer than 2
\* bytes, get_drive and PersonalityEngine.get raise instead of returning a
\* value, and the host mirror is not updated.
C8_ShortReplySurfaced ==
    [][ (last'.op \in {"get_drive", "get"} /\ sent' # <<>>
           /\ last'.outcome # "TransportError" /\ Len(last'.args.raw) < 2)
        => (last'.outcome # "ok" /\ cache' = cache) ]_vars

\* C9: encode raises before any I/O (send_cmd is not called) for every
\* valence outside [-1.0, 1.0] and for every event name outside EVENT_NAMES.
C9_EncodeValidated ==
    (last.op = "encode"
       /\ (~InBipolar(last.args.valence) \/ last.args.event \notin EVENT_NAMES))
    => (last.outcome # "ok" /\ sent = <<>>)

InstinctOps == {"set_drive", "get_drive", "list_drives", "load_defaults"}

\* the mirror after the step holds exactly the entries of the mirror before
\* it, except that each name of touched maps to val[name]
Touches(touched, val) ==
    /\ DOMAIN cache' = DOMAIN cache \cup touched
    /\ \A x \in touched : cache'[x] = val[x]
    /\ \A x \in DOMAIN cache \ touched : cache'[x] = cache[x]

\* C10 as stated: the mirror is empty at start, no call removes an entry,
\* and every call on an InstinctModel that raises, load_defaults included,
\* leaves the mirror exactly as it was.
C10_RaisingCallKeepsMirror ==
    [][ /\ calls = 0 => cache = <<>>
        /\ last'.op \in InstinctOps
           => /\ DOMAIN cache \subseteq DOMAIN cache'
              /\ last'.outcome # "ok" => cache' = cache ]_vars

\* C10 amended: the mirror is empty at start and no call removes an entry.
\* A set_drive, get_drive or list_drives call that raises leaves the mirror
\* exactly as it was; one that returns changes only the names it touched,
\* to the weight set (set_drive) or the value decoded from the reply
\* (get_drive, list_drives), and what it returns is decoded from the reply
\* alone.  load_defaults changes only the drives whose set_drive returned
\* before the first failure, to their default weights: when it raises on
\* its k-th command the first k-1 defaults are already in the mirror.
C10_MirrorFollowsReturns ==
    [][ /\ calls = 0 => cache = <<>>
        /\ last'.op \in InstinctOps
           => /\ DOMAIN cache \subseteq DOMAIN cache'
              /\ (last'.op # "load_defaults" /\ last'.outcome # "ok") => cache' = cache
              /\ (last'.op = "set_drive" /\ last'.outcome = "ok")
                 => Touches({last'.args.name}, [x \in {last'.args.name} |-> last'.args.weight])
              /\ (last'.op = "get_drive" /\ last'.outcome = "ok")
                 => /\ last'.result = <<FromBytes(Prefix(last'.args.raw, 2)), Scale>>
                    /\ Touches({last'.args.name}, [x \in {last'.args.name} |-> last'.result])
              /\ (last'.op = "list_drives" /\ last'.outcome = "ok")
                 => Touches({RecName(last'.args.raw, i) : i \in 1..NRecs(last'.args.raw)},
                            [x \in {RecName(last'.args.raw, i) : i \in 1..NRecs(last'.args.raw)} |->
                                <<RecValue(last'.args.raw, LastRec(last'.args.raw, x)), Scale>>])
              /\ last'.op = "load_defaults"
                 => Touches({DefaultOrder[i] : i \in 1..(last'.args.k - 1)} \cap
                                {DefaultOrder[i] : i \in 1..6},
                            [x \in {DefaultOrder[i] : i \in 1..6} |->
                                DEFAULT_DRIVES[CHOOSE i \in 1..6 : DefaultOrder[i] = x][2]]) ]_vars

C10_Witness ==
    /\ last.op = "list_drives"
    /\ last.outcome = "UnicodeDecodeError"
    /\ DOMAIN cache = {curiosity, curiosity_drive_x}

=============================================================================
